---- MODULE Spec2Model ----
(***************************************************************************)
(* Model of src/connectors/kafka/processor.rs: the partition worker        *)
(* StreamWorker::process_partition (chunks_timeout batching, unbounded     *)
(* for_each_concurrent dispatch, process then synchronous commit, then     *)
(* post_stream) and ParseableSinkProcessor::process / deserialize.         *)
(***************************************************************************)
EXTENDS FiniteSets, Integers, Sequences, TLC

\* ---------------------------------------------------------------- bounds
MaxRecords == 2        \* records the record_stream yields in one run
buffer_size == 2       \* StreamWorker.buffer_size   (chunk capacity)
buffer_timeout == 1    \* StreamWorker.buffer_timeout, in clock ticks
MaxFaults == 1         \* collaborator calls that return an error in one run

Partitions == {0, 1}
\* payload: None (tombstone), Some(valid JSON), Some(bytes that are not JSON)
Payloads == {"none", "json", "bad"}

ConsumerRecord == [offset : 0..(MaxRecords - 1), partition : Partitions, payload : Payloads]

\* the offsets of the records of the input, by position: broker order, or reversed
\* (the worker does not enforce the order of its input)
Orders == {[i \in 1..MaxRecords |-> i - 1], [i \in 1..MaxRecords |-> MaxRecords - i]}

Errors == {"ProvisioningError", "SchemaError", "DecodeError", "ConversionError", "StoreError"}

VARIABLES
    tp,             \* the TopicPartition this process_partition run was started for
    offsets,        \* offset of the n-th record the input stream will yield
    record_stream,  \* records the input stream has yielded so far, in order
    stream_end,     \* the input stream has returned None (chunked stream exhausted)
    items,          \* chunks_timeout: the chunk being accumulated
    elapsed,        \* chunks_timeout: ticks since the first item of the chunk
    futures,        \* for_each_concurrent: one task per emitted chunk, in formation order
    running,        \* id of the task inside the blocking commit call, 0 if none
    committed,      \* broker side: committed offset of tp, -1 if none
    commit_log,     \* commit calls in invocation order: [batch, tpl]
    faults,         \* collaborator calls that have returned an error so far
    wpc,            \* position of process_partition: streaming, post, finished
    post_calls,     \* number of post_stream invocations
    post_res,       \* value post_stream returned, "none" before it returns
    result          \* value returned by process_partition

vars == <<tp, offsets, record_stream, stream_end, items, elapsed, futures, running,
          committed, commit_log, faults, wpc, post_calls, post_res, result>>

\* ------------------------------------------------ pure parts of the code

\* variant: the last record of the batch is taken for the maximum-offset record
MaxByKeyLast(records) == Len(records)

\* records.iter().max_by_key(|r| r.offset): index of the last maximum element
MaxByKey(records) ==
    CHOOSE i \in 1..Len(records) :
        /\ \A j \in 1..Len(records) : records[j].offset <= records[i].offset
        /\ \A j \in (i+1)..Len(records) : records[j].offset < records[i].offset

\* ConsumerRecord::offset_to_commit: the next offset to read, for the record's partition
OffsetToCommit(r) == [partition |-> r.partition, offset |-> r.offset + 1]

\* a task has failed in process or in commit
Failed(t) == t.procRes \in Errors \/ t.commitRes = "err"

\* process() has returned for this task
Returned(t) == t.procRes # "running"

\* variant: the commit is issued before process is called
NewTaskCommitFirst(records, saw) ==
    [records |-> records, tpl |-> OffsetToCommit(records[MaxByKey(records)]),
     pc |-> "commit", k |-> 1, calls |-> <<>>, stored |-> {},
     procRes |-> "running", failedAt |-> 0, commitRes |-> "none",
     sawFailure |-> saw]

\* variant: once a batch has failed, later batches are dropped without
\* being processed or committed
NewTaskDropAfterFailure(records, saw) ==
    IF saw
    THEN [records |-> records, tpl |-> OffsetToCommit(records[MaxByKey(records)]),
          pc |-> "done", k |-> 1, calls |-> <<>>, stored |-> {},
          procRes |-> "running", failedAt |-> 0, commitRes |-> "none",
          sawFailure |-> saw]
    ELSE [records |-> records, tpl |-> OffsetToCommit(records[MaxByKey(records)]),
          pc |-> "ensure", k |-> 1, calls |-> << <<"ensure", 1>> >>, stored |-> {},
          procRes |-> "running", failedAt |-> 0, commitRes |-> "none",
          sawFailure |-> saw]

\* the async block of for_each_concurrent up to its first suspension point:
\* tpl is computed, process(records) is entered and awaits
\* create_stream_if_not_exists for the first record
NewTask(records, saw) ==
    IF records = <<>>
    THEN [records |-> records, tpl |-> [partition |-> -1, offset |-> -1],
          pc |-> "done", k |-> 0, calls |-> <<>>, stored |-> {},
          procRes |-> "running", failedAt |-> 0, commitRes |-> "none",
          sawFailure |-> saw]
    ELSE [records |-> records, tpl |-> OffsetToCommit(records[MaxByKey(records)]),
          pc |-> "ensure", k |-> 1, calls |-> << <<"ensure", 1>> >>, stored |-> {},
          procRes |-> "running", failedAt |-> 0, commitRes |-> "none",
          sawFailure |-> saw]

\* variant: the commit is withheld when process returns an error
FailWithhold(t, err) ==
    [t EXCEPT !.procRes = err, !.failedAt = t.k, !.pc = "done"]

\* variant: the error of a record is noted and the loop goes on with the next record
FailContinue(t, err) ==
    IF t.k < Len(t.records)
    THEN [t EXCEPT !.procRes = err, !.failedAt = t.k, !.k = t.k + 1, !.pc = "ensure",
                   !.calls = Append(@, <<"ensure", t.k + 1>>)]
    ELSE [t EXCEPT !.procRes = err, !.failedAt = t.k, !.pc = "commit"]

\* variant: after an error the block waits instead of going on to the commit
FailHeld(t, err) ==
    [t EXCEPT !.procRes = err, !.failedAt = t.k, !.pc = "held"]

\* `?` on an error: process returns the error, the block goes on to the commit
Fail(t, err) ==
    [t EXCEPT !.procRes = err, !.failedAt = t.k, !.pc = "commit"]

\* variant: after process returns Ok the commit is held back instead of issued at once
AdvanceHeld(t) ==
    IF t.k < Len(t.records)
    THEN [t EXCEPT !.k = t.k + 1, !.pc = "ensure",
                   !.calls = Append(@, <<"ensure", t.k + 1>>)]
    ELSE [t EXCEPT !.procRes = "ok", !.pc = "held"]

\* end of one iteration of `for cr in records`: next record, or Ok(()) and on to the commit
Advance(t) ==
    IF t.k < Len(t.records)
    THEN [t EXCEPT !.k = t.k + 1, !.pc = "ensure",
                   !.calls = Append(@, <<"ensure", t.k + 1>>)]
    ELSE [t EXCEPT !.procRes = "ok", !.pc = "commit"]

\* variant: a missing payload is decoded like any other and fails to decode
DeserializeTombstoneError(t, fault) ==
    LET cr == t.records[t.k]
        t1 == [t EXCEPT !.calls = Append(@, <<"schema", t.k>>)]
        t2 == [t1 EXCEPT !.calls = Append(@, <<"decode", t.k>>)]
        t3 == [t2 EXCEPT !.calls = Append(@, <<"convert", t.k>>)]
    IN  IF fault = "ProvisioningError" THEN Fail(t, "ProvisioningError")
        ELSE IF fault = "SchemaError" THEN Fail(t1, "SchemaError")
        ELSE IF cr.payload \in {"none", "bad"} THEN Fail(t2, "DecodeError")
        ELSE IF fault = "ConversionError" THEN Fail(t3, "ConversionError")
        ELSE [t3 EXCEPT !.pc = "store", !.calls = Append(@, <<"store", t.k>>)]

\* variant: the payload is matched and decoded before the schema is looked up
DeserializeDecodeFirst(t, fault) ==
    LET cr == t.records[t.k]
        t1 == [t EXCEPT !.calls = Append(@, <<"decode", t.k>>)]
        t2 == [t1 EXCEPT !.calls = Append(@, <<"schema", t.k>>)]
        t3 == [t2 EXCEPT !.calls = Append(@, <<"convert", t.k>>)]
    IN  IF fault = "ProvisioningError" THEN Fail(t, "ProvisioningError")
        ELSE IF cr.payload = "none" THEN Advance(t)
        ELSE IF cr.payload = "bad" THEN Fail(t1, "DecodeError")
        ELSE IF fault = "SchemaError" THEN Fail(t2, "SchemaError")
        ELSE IF fault = "ConversionError" THEN Fail(t3, "ConversionError")
        ELSE [t3 EXCEPT !.pc = "store", !.calls = Append(@, <<"store", t.k>>)]

\* deserialize from the return of create_stream_if_not_exists on: then the
\* schema lookup, then the match on the payload. fault names the call that
\* returns an error, if any; decoding is decided by the payload alone
Deserialize(t, fault) ==
    LET cr == t.records[t.k]
        t1 == [t EXCEPT !.calls = Append(@, <<"schema", t.k>>)]
        t2 == [t1 EXCEPT !.calls = Append(@, <<"decode", t.k>>)]
        t3 == [t2 EXCEPT !.calls = Append(@, <<"convert", t.k>>)]
    IN  IF fault = "ProvisioningError" THEN Fail(t, "ProvisioningError")
        ELSE IF fault = "SchemaError" THEN Fail(t1, "SchemaError")
        ELSE IF cr.payload = "none" THEN Advance(t1)
        ELSE IF cr.payload = "bad" THEN Fail(t2, "DecodeError")
        ELSE IF fault = "ConversionError" THEN Fail(t3, "ConversionError")
        ELSE [t3 EXCEPT !.pc = "store", !.calls = Append(@, <<"store", t.k>>)]

\* variant: the result of event.process() is dropped
StoredIgnoreResult(t, res) ==
    IF res = "err" THEN Advance(t)
    ELSE Advance([t EXCEPT !.stored = @ \cup {t.k}])

\* variant: a failed store is tried again
StoredRetry(t, res) ==
    IF res = "err" THEN [t EXCEPT !.calls = Append(@, <<"store", t.k>>)]
    ELSE Advance([t EXCEPT !.stored = @ \cup {t.k}])

\* event.process().await? returned res
Stored(t, res) ==
    IF res = "err" THEN Fail(t, "StoreError")
    ELSE Advance([t EXCEPT !.stored = @ \cup {t.k}])

\* variant: the worker leaves the loop as soon as the stream is exhausted
ForEachDoneStreamOnly == stream_end

\* for_each_concurrent completes: stream exhausted and no task left
ForEachDone ==
    /\ stream_end
    /\ \A b \in 1..Len(futures) : futures[b].pc = "done"

\* variant: an error of a batch is carried into the result of the run
WorkerResultBatchError(fs, res) ==
    IF \E b \in 1..Len(fs) : Failed(fs[b]) THEN "err" ELSE res

\* `self.processor.post_stream().await?; Ok(())`: the result of the run is
\* the error of post_stream, or Ok(())
WorkerResult(fs, res) == res

\* ------------------------------------------------------------ the state machine

Init ==
    /\ tp \in Partitions
    /\ offsets \in Orders
    /\ record_stream = <<>>
    /\ stream_end = FALSE
    /\ items = <<>>
    /\ elapsed = 0
    /\ futures = <<>>
    /\ running = 0
    /\ committed = -1
    /\ commit_log = <<>>
    /\ faults = 0
    /\ wpc = "streaming"
    /\ post_calls = 0
    /\ post_res = "none"
    /\ result = "none"

\* variant: the commit is awaited like the other calls and lets the other
\* blocks and the stream run meanwhile
InstallNonBlocking(fs, b, t) ==
    /\ futures' = [fs EXCEPT ![b] = t]
    /\ running' = 0
    /\ commit_log' = IF t.pc = "commit"
                     THEN Append(commit_log, [batch |-> b, tpl |-> t.tpl])
                     ELSE commit_log

\* task b takes the value t; when t has reached the commit, the synchronous
\* consumer.commit(&tpl, CommitMode::Sync) is entered in the same poll
Install(fs, b, t) ==
    /\ futures' = [fs EXCEPT ![b] = t]
    /\ IF t.pc = "commit"
       THEN /\ running' = b
            /\ commit_log' = Append(commit_log, [batch |-> b, tpl |-> t.tpl])
       ELSE /\ running' = 0
            /\ commit_log' = commit_log

\* the chunked stream yields `records`: a task is pushed and polled
Dispatch(records) ==
    LET saw == \E b \in 1..Len(futures) : Failed(futures[b])
        fs  == Append(futures, NewTask(records, saw))
    IN  Install(fs, Len(fs), fs[Len(fs)])

\* the input stream yields a record; the chunk is emitted when it is full
PollRecord(r) ==
    /\ wpc = "streaming" /\ running = 0 /\ ~stream_end
    /\ Len(record_stream) < MaxRecords
    /\ r.partition = tp
    /\ r.offset = offsets[Len(record_stream) + 1]
    /\ record_stream' = Append(record_stream, r)
    /\ IF Len(items) + 1 >= buffer_size
       THEN /\ items' = <<>>
            /\ elapsed' = 0
            /\ Dispatch(Append(items, r))
       ELSE /\ items' = Append(items, r)
            /\ elapsed' = IF items = <<>> THEN 0 ELSE elapsed
            /\ UNCHANGED <<futures, running, commit_log>>
    /\ UNCHANGED <<faults, tp, offsets, stream_end, committed, wpc, post_calls, post_res, result>>

\* time passes while a chunk is open
Tick ==
    /\ items # <<>> /\ elapsed < buffer_timeout
    /\ elapsed' = elapsed + 1
    /\ UNCHANGED <<tp, offsets, record_stream, stream_end, items, futures, running,
                   committed, commit_log, faults, wpc, post_calls, post_res, result>>

\* variant: a partial chunk is emitted before its deadline
TimeoutEarly ==
    /\ wpc = "streaming" /\ running = 0 /\ ~stream_end
    /\ items # <<>>
    /\ items' = <<>>
    /\ elapsed' = 0
    /\ Dispatch(items)
    /\ UNCHANGED <<faults, tp, offsets, record_stream, stream_end, committed, wpc, post_calls, post_res, result>>

\* the deadline of the open chunk has passed: the partial chunk is emitted
Timeout ==
    /\ wpc = "streaming" /\ running = 0 /\ ~stream_end
    /\ items # <<>> /\ elapsed = buffer_timeout
    /\ items' = <<>>
    /\ elapsed' = 0
    /\ Dispatch(items)
    /\ UNCHANGED <<faults, tp, offsets, record_stream, stream_end, committed, wpc, post_calls, post_res, result>>

\* variant: the end of the input emits the open chunk even when it is empty
StreamEndFlushAlways ==
    /\ wpc = "streaming" /\ running = 0 /\ ~stream_end
    /\ stream_end' = TRUE
    /\ items' = <<>>
    /\ elapsed' = 0
    /\ Dispatch(items)
    /\ UNCHANGED <<faults, tp, offsets, record_stream, committed, wpc, post_calls, post_res, result>>

\* variant: the end of the input discards the open chunk
StreamEndDropPartial ==
    /\ wpc = "streaming" /\ running = 0 /\ ~stream_end
    /\ stream_end' = TRUE
    /\ items' = <<>>
    /\ elapsed' = 0
    /\ UNCHANGED <<futures, running, commit_log>>
    /\ UNCHANGED <<faults, tp, offsets, record_stream, committed, wpc, post_calls, post_res, result>>

\* the input stream ends: a partial chunk is flushed, then the chunked stream ends
StreamEnd ==
    /\ wpc = "streaming" /\ running = 0 /\ ~stream_end
    /\ stream_end' = TRUE
    /\ items' = <<>>
    /\ elapsed' = 0
    /\ IF items # <<>>
       THEN Dispatch(items)
       ELSE UNCHANGED <<futures, running, commit_log>>
    /\ UNCHANGED <<faults, tp, offsets, record_stream, committed, wpc, post_calls, post_res, result>>

\* variant: the blocks run one after the other, in formation order
EnsureReturnInOrder(b) ==
    /\ wpc = "streaming" /\ running = 0
    /\ futures[b].pc = "ensure"
    /\ \A i \in 1..(b - 1) : futures[i].pc = "done"
    /\ \E fault \in {"none", "ProvisioningError", "SchemaError", "ConversionError"} :
         LET t == Deserialize(futures[b], fault)
         IN  /\ fault # "none" => (faults < MaxFaults /\ t.procRes = fault)
             /\ faults' = IF fault = "none" THEN faults ELSE faults + 1
             /\ Install(futures, b, t)
    /\ UNCHANGED <<tp, offsets, record_stream, stream_end, items, elapsed, committed,
                   wpc, post_calls, post_res, result>>

\* create_stream_if_not_exists returns for the current record of task b
EnsureReturn(b) ==
    /\ wpc = "streaming" /\ running = 0
    /\ futures[b].pc = "ensure"
    /\ \E fault \in {"none", "ProvisioningError", "SchemaError", "ConversionError"} :
         LET t == Deserialize(futures[b], fault)
         IN  /\ fault # "none" => (faults < MaxFaults /\ t.procRes = fault)
             /\ faults' = IF fault = "none" THEN faults ELSE faults + 1
             /\ Install(futures, b, t)
    /\ UNCHANGED <<tp, offsets, record_stream, stream_end, items, elapsed, committed,
                   wpc, post_calls, post_res, result>>

\* event.process() returns for the current record of task b
StoreReturn(b) ==
    /\ wpc = "streaming" /\ running = 0
    /\ futures[b].pc = "store"
    /\ \E res \in {"ok", "err"} :
         /\ res = "err" => faults < MaxFaults
         /\ faults' = IF res = "err" THEN faults + 1 ELSE faults
         /\ Install(futures, b, Stored(futures[b], res))
    /\ UNCHANGED <<tp, offsets, record_stream, stream_end, items, elapsed, committed,
                   wpc, post_calls, post_res, result>>

\* the synchronous commit of task b returns; the task is complete
CommitReturn(b) ==
    /\ running = b
    /\ futures[b].pc = "commit"
    /\ \E res \in {"ok", "err"} :
         /\ res = "err" => faults < MaxFaults
         /\ faults' = IF res = "err" THEN faults + 1 ELSE faults
         /\ futures' = [futures EXCEPT ![b].commitRes = res, ![b].pc = "done"]
         /\ committed' = IF res = "ok" THEN futures[b].tpl.offset ELSE committed
    /\ running' = 0
    /\ UNCHANGED <<tp, offsets, record_stream, stream_end, items, elapsed, commit_log,
                   wpc, post_calls, post_res, result>>

\* for_each_concurrent has completed: post_stream is called
PostStream ==
    /\ wpc = "streaming" /\ running = 0
    /\ ForEachDone
    /\ wpc' = "post"
    /\ post_calls' = post_calls + 1
    /\ UNCHANGED <<faults, tp, offsets, record_stream, stream_end, items, elapsed, futures,
                   running, committed, commit_log, post_res, result>>

\* post_stream returns; process_partition returns its error or Ok(())
PostReturn ==
    /\ wpc = "post"
    /\ \E res \in {"ok", "err"} :
         /\ res = "err" => faults < MaxFaults
         /\ faults' = IF res = "err" THEN faults + 1 ELSE faults
         /\ post_res' = res
         /\ result' = WorkerResult(futures, res)
    /\ wpc' = "finished"
    /\ UNCHANGED <<tp, offsets, record_stream, stream_end, items, elapsed, futures,
                   running, committed, commit_log, post_calls>>

Next ==
    \/ \E r \in ConsumerRecord : PollRecord(r)
    \/ Tick
    \/ Timeout
    \/ StreamEnd
    \/ \E b \in 1..Len(futures) : EnsureReturn(b)
    \/ \E b \in 1..Len(futures) : StoreReturn(b)
    \/ \E b \in 1..Len(futures) : CommitReturn(b)
    \/ PostStream
    \/ PostReturn

Spec == Init /\ [][Next]_vars

\* every awaited collaborator call and the commit eventually return, and the
\* executor keeps polling the worker
FairSpec ==
    /\ Spec
    /\ WF_vars(\E b \in 1..Len(futures) : EnsureReturn(b))
    /\ WF_vars(\E b \in 1..Len(futures) : StoreReturn(b))
    /\ WF_vars(\E b \in 1..Len(futures) : CommitReturn(b))
    /\ WF_vars(PostStream)
    /\ WF_vars(PostReturn)

\* ------------------------------------------------------------ observations

Tasks == 1..Len(futures)

\* positions in commit_log of the commit calls of task b
CommitsOf(b) == {n \in 1..Len(commit_log) : commit_log[n].batch = b}

HasCall(t, op, k) == \E n \in 1..Len(t.calls) : t.calls[n] = <<op, k>>

\* positions of the records of t that were passed to the storage collaborator, in call order
StoreCalls(t) ==
    LET sc == SelectSeq(t.calls, LAMBDA c : c[1] = "store")
    IN  [n \in 1..Len(sc) |-> sc[n][2]]

\* positions of the records of t that carry a payload, in batch order
PayloadPositions(t) ==
    SelectSeq([k \in 1..Len(t.records) |-> k], LAMBDA k : t.records[k].payload # "none")

MaxOffsetOf(records) ==
    CHOOSE m \in {records[i].offset : i \in 1..Len(records)} :
        \A i \in 1..Len(records) : records[i].offset <= m

\* number of records of the input that went into the tasks before task b
RECURSIVE Before(_)
Before(b) == IF b = 1 THEN 0 ELSE Before(b - 1) + Len(futures[b - 1].records)

\* the n-th record of the input was stored successfully
StoredRecord(n) ==
    \E b \in Tasks : \E k \in futures[b].stored : Before(b) + k = n

\* ------------------------------------------------------------ claims

\* C1: at-least-once delivery: for an input delivered in broker order,
\* whenever the broker-committed offset of the partition is greater than the
\* offset of a delivered record that has a payload, that record has been
\* stored successfully.
C1_AtLeastOnce ==
    offsets = [i \in 1..MaxRecords |-> i - 1] =>
        \A n \in 1..Len(record_stream) :
            (record_stream[n].payload # "none" /\ committed > record_stream[n].offset)
                => StoredRecord(n)

\* C2: the commit of a batch is invoked only after process(batch) of that same
\* batch has returned, with success or with an error; never while it is still
\* running or before it started.
C2_CommitAfterProcess ==
    \A b \in Tasks :
        (CommitsOf(b) # {} \/ futures[b].pc = "commit" \/ futures[b].commitRes # "none")
            => (Returned(futures[b]) /\ futures[b].pc \in {"commit", "done"})

C2_Witness ==
    \E a \in Tasks, b \in Tasks :
        /\ futures[a].procRes = "ok" /\ futures[a].commitRes = "ok"
        /\ futures[b].procRes \in Errors /\ futures[b].commitRes = "ok"

\* C3: for every non-empty batch, whatever the order of its records, the
\* CommitTarget passed to the commit has offset 1 + the maximum record offset
\* of the batch and the partition of that maximum-offset record.
C3_CommitTarget ==
    \A n \in 1..Len(commit_log) :
        LET t == futures[commit_log[n].batch]
        IN  /\ t.records # <<>>
            /\ commit_log[n].tpl.offset = 1 + MaxOffsetOf(t.records)
            /\ \E i \in 1..Len(t.records) :
                 /\ t.records[i].offset = MaxOffsetOf(t.records)
                 /\ commit_log[n].tpl.partition = t.records[i].partition

\* a commit was made for a batch whose last record is not its maximum-offset record
C3_Witness ==
    \E n \in 1..Len(commit_log) :
        LET t == futures[commit_log[n].batch]
        IN  /\ Len(t.records) >= 2
            /\ t.records[Len(t.records)].offset < t.records[1].offset
            /\ commit_log[n].tpl.offset = t.records[1].offset + 1
            /\ t.commitRes = "ok"

\* C4: the commit is not withheld on failure: for every batch whose process
\* call has returned, with success or with an error, exactly one commit of
\* that batch's CommitTarget has been attempted.
C4_CommitNotWithheld ==
    \A b \in Tasks :
        Returned(futures[b]) =>
            /\ Cardinality(CommitsOf(b)) = 1
            /\ \A n \in CommitsOf(b) :
                 commit_log[n].tpl =
                     OffsetToCommit(futures[b].records[MaxByKey(futures[b].records)])

\* store failed on a record that is not the last of its batch; the record after
\* it was never reached and the commit for max offset + 1 was attempted
C4_Witness ==
    \E b \in Tasks :
        /\ Len(futures[b].records) = 2
        /\ futures[b].procRes = "StoreError" /\ futures[b].failedAt = 1
        /\ futures[b].stored = {}
        /\ ~HasCall(futures[b], "ensure", 2)
        /\ futures[b].commitRes # "none"
        /\ \E n \in CommitsOf(b) : commit_log[n].tpl.offset = 1 + MaxOffsetOf(futures[b].records)

\* C5 (as stated): a record without payload never causes a call to the storage
\* collaborator and never causes process to return an error; the records
\* after it in the batch are still handled.
C5_TombstoneNeverFails ==
    \A b \in Tasks : \A k \in 1..Len(futures[b].records) :
        futures[b].records[k].payload = "none" =>
            /\ ~HasCall(futures[b], "store", k)
            /\ futures[b].failedAt # k
            /\ ((futures[b].k > k \/ futures[b].procRes = "ok") /\ k < Len(futures[b].records))
                   => HasCall(futures[b], "ensure", k + 1)

\* C5 (amended): a record without payload never causes a decode, a conversion
\* or a call to the storage collaborator; process returns an error at such a
\* record only when create_stream_if_not_exists or the schema lookup fails
\* for it; when both succeed the record is skipped without error and the
\* records after it in the batch are still handled.
C5_TombstoneSkip ==
    \A b \in Tasks : \A k \in 1..Len(futures[b].records) :
        futures[b].records[k].payload = "none" =>
            /\ ~HasCall(futures[b], "store", k)
            /\ ~HasCall(futures[b], "decode", k)
            /\ ~HasCall(futures[b], "convert", k)
            /\ k \notin futures[b].stored
            /\ futures[b].failedAt = k
                   => futures[b].procRes \in {"ProvisioningError", "SchemaError"}
            /\ (futures[b].failedAt # k /\ k < Len(futures[b].records)
                  /\ (futures[b].k > k \/ Returned(futures[b])) /\ HasCall(futures[b], "schema", k))
                   => HasCall(futures[b], "ensure", k + 1)

\* a tombstone was skipped and the record after it was stored
C5_Witness ==
    \E b \in Tasks : \E k \in 1..Len(futures[b].records) :
        /\ futures[b].records[k].payload = "none"
        /\ k < Len(futures[b].records)
        /\ (k + 1) \in futures[b].stored
        /\ futures[b].procRes = "ok"

\* C6: fail-fast within a batch: when handling record k fails (provisioning,
\* schema lookup, decode, conversion or store), process returns that error at
\* once and no record after position k is converted or stored by that call.
C6_FailFast ==
    \A b \in Tasks :
        LET t == futures[b]
        IN  t.procRes \in Errors =>
              /\ t.failedAt = t.k /\ t.failedAt \in 1..Len(t.records)
              /\ t.pc \in {"commit", "done"}
              /\ \A n \in 1..Len(t.calls) : t.calls[n][2] <= t.failedAt
              /\ t.calls[Len(t.calls)] =
                   CASE t.procRes = "ProvisioningError" -> <<"ensure", t.failedAt>>
                     [] t.procRes = "SchemaError" -> <<"schema", t.failedAt>>
                     [] t.procRes = "DecodeError" -> <<"decode", t.failedAt>>
                     [] t.procRes = "ConversionError" -> <<"convert", t.failedAt>>
                     [] t.procRes = "StoreError" -> <<"store", t.failedAt>>

\* a batch failed at a record that is not its last one, and its task is complete
C6_Witness ==
    \E b \in Tasks :
        /\ futures[b].procRes = "ConversionError"
        /\ futures[b].failedAt = 1 /\ Len(futures[b].records) = 2
        /\ futures[b].records[2].payload = "json"
        /\ futures[b].pc = "done"

\* C7 (as stated): when no collaborator call (create_stream_if_not_exists,
\* schema lookup, store) fails, process returns success and has called store
\* exactly once for each record with a payload and never for a tombstone, in
\* batch order.
C7_SuccessUnlessCollaboratorFails ==
    \A b \in Tasks :
        LET t == futures[b]
        IN  (Returned(t) /\ t.procRes \notin {"ProvisioningError", "SchemaError", "StoreError"})
                => (t.procRes = "ok" /\ StoreCalls(t) = PayloadPositions(t))

\* C7 (amended): when no collaborator call fails and every payload decodes and
\* converts without error, process returns success; a process call that
\* returns success has called store exactly once for each record with a
\* payload and never for a tombstone, in batch order, each store having
\* completed before the next record is converted.
C7_SuccessPath ==
    \A b \in Tasks :
        LET t == futures[b]
        IN  /\ (Returned(t) /\ faults = 0
                  /\ \A k \in 1..Len(t.records) : t.records[k].payload # "bad")
                 => t.procRes = "ok"
            /\ t.procRes = "ok" =>
                 /\ StoreCalls(t) = PayloadPositions(t)
                 /\ t.stored = {k \in 1..Len(t.records) : t.records[k].payload # "none"}
                 /\ t.failedAt = 0
            /\ \A n \in 1..Len(t.calls), m \in 1..Len(t.calls) :
                 (n < m /\ t.calls[n][1] = "store" /\ t.calls[m][1] = "convert")
                     => (t.calls[n][2] < t.calls[m][2] /\ t.calls[n][2] \in t.stored)

\* a batch of two records with payloads: exactly two store calls, in batch order
C7_Witness ==
    \E b \in Tasks :
        /\ Len(futures[b].records) = 2
        /\ futures[b].records[1].payload = "json"
        /\ futures[b].records[2].payload = "json"
        /\ futures[b].procRes = "ok"
        /\ StoreCalls(futures[b]) = <<1, 2>>
        /\ futures[b].stored = {1, 2}

\* C8: commits follow the order in which process calls finish, not the order
\* in which batches were formed: a later batch whose process call has
\* returned has had its commit invoked although an earlier batch of the
\* partition is still in process and has not committed. (That the committed
\* offsets then decrease is the state C8_Witness.)
C8_CommitInCompletionOrder ==
    \A i \in Tasks, j \in Tasks :
        (i < j /\ Returned(futures[j]) /\ ~Returned(futures[i]))
            => (CommitsOf(j) # {} /\ CommitsOf(i) = {})

\* batch 2 (higher offsets) committed before batch 1: the committed offsets decrease
C8_Witness ==
    /\ Len(commit_log) = 2 /\ Len(futures) = 2
    /\ commit_log[1].batch = 2 /\ commit_log[2].batch = 1
    /\ commit_log[1].tpl.offset > commit_log[2].tpl.offset
    /\ \A k \in 1..Len(futures[1].records), l \in 1..Len(futures[2].records) :
           futures[1].records[k].offset < futures[2].records[l].offset
    /\ futures[1].commitRes = "ok" /\ futures[2].commitRes = "ok"
    /\ committed = commit_log[2].tpl.offset

\* C9: post_stream is invoked at most once, only after the input stream has
\* closed and every dispatched batch has finished its process call and its
\* commit attempt, whether or not batches failed; a finished run has invoked
\* it exactly once.
C9_PostStreamOnce ==
    /\ post_calls <= 1
    /\ (wpc \in {"post", "finished"}) <=> (post_calls = 1)
    /\ post_calls = 1 =>
         /\ stream_end /\ items = <<>> /\ running = 0
         /\ \A b \in Tasks : /\ futures[b].pc = "done"
                             /\ Returned(futures[b])
                             /\ futures[b].commitRes # "none"
    /\ (wpc = "streaming" /\ stream_end /\ \A b \in Tasks : futures[b].pc = "done")
         => ENABLED PostStream

\* the run finished after two batches, one of which failed
C9_Witness ==
    /\ wpc = "finished" /\ post_calls = 1
    /\ Len(futures) >= 2
    /\ \E b \in Tasks : futures[b].procRes \in Errors

\* C10: errors are recovered at the batch boundary: a batch emitted after the
\* process or the commit of an earlier batch failed is still dispatched and
\* processed, and it completes only with its own commit attempt; the worker
\* does not leave its loop while such a batch is unfinished.
C10_RecoveredAtBatchBoundary ==
    \A j \in Tasks :
        LET t == futures[j]
        IN  t.sawFailure =>
              /\ t.calls # <<>> /\ t.calls[1] = <<"ensure", 1>>
              /\ t.pc = "done" => (Returned(t) /\ Cardinality(CommitsOf(j)) = 1
                                     /\ t.commitRes # "none")
              /\ t.pc # "done" => wpc = "streaming"

\* a batch emitted after a failed batch was processed and committed
C10_Witness ==
    \E i \in Tasks, j \in Tasks :
        /\ i < j /\ Failed(futures[i]) /\ futures[j].sawFailure
        /\ futures[j].procRes = "ok" /\ futures[j].commitRes = "ok"

\* C11: the result of a finished run is the value post_stream returned:
\* success if post_stream succeeded, otherwise its error; no error of a
\* batch's process call or commit call changes the result, and there is no
\* result before the run has finished.
C11_ResultIsPostStream ==
    /\ wpc = "finished" => (result = post_res /\ result \in {"ok", "err"})
    /\ wpc # "finished" => (result = "none" /\ post_res = "none")

\* the run finished with success although a batch had failed
C11_Witness ==
    /\ wpc = "finished" /\ result = "ok" /\ post_res = "ok"
    /\ \E b \in Tasks : Failed(futures[b])

\* the records of the first n batches, in formation order
RECURSIVE Concat(_)
Concat(n) == IF n = 0 THEN <<>> ELSE Concat(n - 1) \o futures[n].records

\* the step emits a batch
Emits == Len(futures') = Len(futures) + 1

\* C12: every batch handed to the worker is non-empty and holds at most
\* buffer_size records; a window without records produces no batch, so
\* process and commit are never invoked for an empty batch.
C12_BatchesBounded ==
    /\ Len(items) < buffer_size
    /\ \A b \in Tasks :
         /\ Len(futures[b].records) \in 1..buffer_size
         /\ futures[b].calls # <<>>
    /\ \A n \in 1..Len(commit_log) : futures[commit_log[n].batch].records # <<>>

\* the input closed right after a full batch: the empty window gave no batch
C12_Witness ==
    /\ stream_end /\ Len(futures) = 1
    /\ Len(futures[1].records) = buffer_size
    /\ Len(record_stream) = buffer_size
    /\ futures[1].commitRes # "none"

\* C13: batching loses, duplicates and reorders nothing: the batches in
\* formation order, followed by the open chunk, are the records delivered
\* on the input; once the input has closed the batches alone are the input,
\* the partial chunk open at the close having been emitted as the last batch.
C13_NothingLost ==
    /\ [](Concat(Len(futures)) \o items = record_stream)
    /\ [](stream_end => (items = <<>> /\ Concat(Len(futures)) = record_stream))
    /\ [][(stream_end' /\ ~stream_end /\ items # <<>>)
            => (Emits /\ futures'[Len(futures')].records = items)]_vars

\* the input closed after a partial batch; nothing is missing
C13_Witness ==
    /\ stream_end /\ Len(record_stream) = 1
    /\ Len(futures) = 1 /\ futures[1].records = record_stream
    /\ Len(futures[1].records) < buffer_size

C15_Termination ==
    stream_end ~> (/\ wpc = "finished"
                   /\ \A b \in Tasks : /\ Returned(futures[b])
                                       /\ futures[b].commitRes # "none"
                                       /\ futures[b].pc = "done")

\* a run of two batches, one of them failed, has finished
C15_Witness ==
    /\ wpc = "finished" /\ stream_end
    /\ Len(futures) = 2
    /\ \E b \in Tasks : futures[b].procRes \in Errors
    /\ \A b \in Tasks : futures[b].commitRes # "none"

\* C16: a stuck batch blocks only itself: while the process call of one batch
\* has not returned, every other batch of the partition, formed earlier or
\* later, can still take its next step (process, then commit), and the worker
\* still pulls records and emits batches; the worker is not finished and
\* post_stream has not been called.
C16_StuckBlocksOnlyItself ==
    \A i \in Tasks :
        futures[i].pc \in {"ensure", "store"} =>
            /\ wpc = "streaming" /\ post_calls = 0
            /\ \A j \in Tasks \ {i} :
                 /\ (running = 0 /\ futures[j].pc = "ensure") => ENABLED EnsureReturn(j)
                 /\ (running = 0 /\ futures[j].pc = "store") => ENABLED StoreReturn(j)
                 /\ futures[j].pc = "commit" => ENABLED CommitReturn(j)
            /\ (running = 0 /\ ~stream_end /\ Len(record_stream) < MaxRecords)
                 => ENABLED (\E r \in ConsumerRecord : PollRecord(r))
            /\ (running = 0 /\ ~stream_end /\ items # <<>> /\ elapsed = buffer_timeout)
                 => ENABLED Timeout

\* the first batch is still in process; the batch formed after it has been
\* processed and committed
C16_Witness ==
    /\ Len(futures) = 2
    /\ futures[1].pc \in {"ensure", "store"} /\ ~Returned(futures[1])
    /\ futures[2].pc = "done" /\ futures[2].procRes = "ok" /\ futures[2].commitRes = "ok"
    /\ wpc = "streaming" /\ post_calls = 0

\* the steps taken for the record at position k of t, in call order
CallsAt(t, k) ==
    LET cs == SelectSeq(t.calls, LAMBDA c : c[2] = k)
    IN  [n \in 1..Len(cs) |-> cs[n][1]]

IsPrefix(a, b) == Len(a) <= Len(b) /\ \A n \in 1..Len(a) : a[n] = b[n]

\* the records of t that process has reached
Reached(t, k) == k <= t.k

\* C17 (as stated): create_stream_if_not_exists is called exactly once for
\* every record reached and before anything else; for a tombstone nothing
\* further is used (no schema fetch, no decode, no store); for a record with
\* a payload the steps run in the order decode, fetch schema, build event, store.
C17_DecodeBeforeSchema ==
    \A b \in Tasks : \A k \in 1..Len(futures[b].records) :
        LET t == futures[b]
        IN  IF ~Reached(t, k) THEN CallsAt(t, k) = <<>>
            ELSE /\ CallsAt(t, k) # <<>>
                 /\ IF t.records[k].payload = "none"
                    THEN CallsAt(t, k) = <<"ensure">>
                    ELSE IsPrefix(CallsAt(t, k),
                                  <<"ensure", "decode", "schema", "convert", "store">>)

\* C17 (amended): create_stream_if_not_exists is called exactly once for
\* every record reached, tombstones included, and before anything else for
\* that record; the schema is then fetched for every record, tombstones
\* included; for a tombstone nothing further is done (no decode, no event, no
\* store); for a record with a payload the steps run in the order fetch
\* schema, decode, build event, store.
C17_CallOrder ==
    \A b \in Tasks : \A k \in 1..Len(futures[b].records) :
        LET t == futures[b]
        IN  IF ~Reached(t, k) THEN CallsAt(t, k) = <<>>
            ELSE /\ CallsAt(t, k) # <<>>
                 /\ IF t.records[k].payload = "none"
                    THEN IsPrefix(CallsAt(t, k), <<"ensure", "schema">>)
                    ELSE IsPrefix(CallsAt(t, k),
                                  <<"ensure", "schema", "decode", "convert", "store">>)
                 /\ (k < t.k \/ t.procRes = "ok") =>
                      CallsAt(t, k) = IF t.records[k].payload = "none"
                                      THEN <<"ensure", "schema">>
                                      ELSE <<"ensure", "schema", "decode", "convert", "store">>

\* a tombstone and a record with a payload were both handled in one batch
C17_Witness ==
    \E b \in Tasks :
        /\ Len(futures[b].records) = 2 /\ futures[b].procRes = "ok"
        /\ futures[b].records[1].payload = "none"
        /\ futures[b].records[2].payload = "json"
        /\ CallsAt(futures[b], 1) = <<"ensure", "schema">>
        /\ CallsAt(futures[b], 2) = <<"ensure", "schema", "decode", "convert", "store">>

\* the batches whose commit call has been invoked and has not returned
InCommit == {b \in Tasks : futures[b].pc = "commit"}

\* C18: commits of one worker never overlap: from the invocation of a
\* batch's commit until it returns, at most that one commit is in progress,
\* no other batch takes a step, no batch is emitted, no commit is invoked and
\* the input is not polled.
C18_CommitsNeverOverlap ==
    /\ [](Cardinality(InCommit) <= 1)
    /\ [][InCommit # {} =>
            /\ Len(futures') = Len(futures)
            /\ \A j \in Tasks : j \notin InCommit => futures'[j] = futures[j]
            /\ \A b \in InCommit : futures'[b] = futures[b] \/ futures'[b].pc = "done"
            /\ record_stream' = record_stream /\ items' = items
            /\ stream_end' = stream_end
            /\ commit_log' = commit_log
            /\ wpc' = wpc]_vars

\* a commit is in progress while another batch is in process
C18_Witness ==
    /\ InCommit # {}
    /\ \E j \in Tasks : futures[j].pc \in {"ensure", "store"}

Count(seq, x) == Cardinality({n \in 1..Len(seq) : seq[n] = x})

\* C19: within one run every emitted batch is passed to process exactly
\* once and committed at most once, and every delivered record is in exactly
\* one batch and is passed to the storage collaborator at most once: nothing
\* is retried or dispatched again after a failure.
C19_NoRetry ==
    /\ Concat(Len(futures)) \o items = record_stream
    /\ \A b \in Tasks :
         /\ Count(futures[b].calls, <<"ensure", 1>>) = 1
         /\ futures[b].calls[1] = <<"ensure", 1>>
         /\ Cardinality(CommitsOf(b)) <= 1
         /\ \A k \in 1..Len(futures[b].records) :
              /\ Count(futures[b].calls, <<"store", k>>) <= 1
              /\ Count(futures[b].calls, <<"ensure", k>>) <= 1

\* a run finished after a store had failed: the record was passed to store
\* once and its batch was committed once
C19_Witness ==
    /\ wpc = "finished"
    /\ \E b \in Tasks :
         /\ futures[b].procRes = "StoreError"
         /\ Count(futures[b].calls, <<"store", futures[b].failedAt>>) = 1
         /\ Cardinality(CommitsOf(b)) = 1

====
